---- MODULE Spec2Model ----
(***************************************************************************)
(* Verification model of python-jellyfinapi.                               *)
(*                                                                         *)
(*   Spec        JellyfinSonosClient.playMedia      (jellyfinapi/sonos.py)  *)
(*   SpecConfig  JellyfinConfig.get / environment   (jellyfinapi/config.py) *)
(*   SpecAlert   AlertListener and its thread       (jellyfinapi/alert.py)  *)
(*   SpecPhoto   Photoalbum and Photo               (jellyfinapi/photo.py)  *)
(*   SpecConc    playMedia called from two threads  (jellyfinapi/sonos.py)  *)
(*                                                                         *)
(* Python strings that the code takes apart (split, strip, upper, lower,   *)
(* replace) are sequences of one-character strings; the string operations  *)
(* are computed on them character by character.                            *)
(***************************************************************************)
EXTENDS Integers, Sequences, FiniteSets, TLC

VARIABLES
    _commandId,        \* JellyfinSonosClient._commandId
    sent,              \* the commands handed to sendCommand, in call order
    last,              \* what the most recent playMedia call did
    nCalls,            \* number of playMedia calls so far
    tokensMinted,      \* tokens the server has minted (createToken)
    playQueuesCreated, \* play queues the server has created (createPlayQueue)
    environ,           \* os.environ: environment variable name -> value
    file,              \* the INI file JellyfinConfig.__init__ read
    data,              \* JellyfinConfig.data
    cfgLast,           \* what the most recent configuration operation did
    shadowed,          \* env names a get() has seen override a persisted entry
    started,           \* AlertListener: Thread.start() has been called
    pc,                \* AlertListener: where the listener thread is in run()
    _ws,               \* AlertListener._ws
    wsClosed,          \* the websocket connection has been closed
    websocket,         \* the websocket library can be imported
    _callback,         \* AlertListener._callback is set
    _callbackError,    \* AlertListener._callbackError is set
    arrived,           \* the messages the transport has delivered, in order
    delivered,         \* the payloads the success callback was called with
    alertLast,         \* what the most recent AlertListener operation did
    album,             \* the Photoalbum object most recently loaded
    photoLast,         \* what the most recent Photoalbum / Photo operation did
    threads,           \* concurrent playMedia callers: position and locals
    overlapped         \* two callers' counter updates have overlapped

vars == <<_commandId, sent, last, nCalls, tokensMinted, playQueuesCreated,
          environ, file, data, cfgLast, shadowed,
          started, pc, _ws, wsClosed, websocket, _callback, _callbackError,
          arrived, delivered, alertLast,
          album, photoLast, threads, overlapped>>

alertVars == <<started, pc, _ws, wsClosed, websocket, _callback, _callbackError,
               arrived, delivered, alertLast>>

sonosVars == <<_commandId, sent, last, nCalls, tokensMinted, playQueuesCreated>>
configVars == <<environ, file, data, cfgLast, shadowed>>
photoVars == <<album, photoLast>>
concVars == <<threads, overlapped>>

----------------------------------------------------------------------------
(* Bounds *)

MaxCalls == 3      \* playMedia calls in one behaviour
MaxEvents == 2     \* messages the transport delivers to a listener

----------------------------------------------------------------------------
(* Python string operations *)

\* str.split(sep) for a one-character separator
RECURSIVE split(_, _)
split(s, sep) ==
    IF \A i \in 1..Len(s) : s[i] # sep
    THEN <<s>>
    ELSE LET i == CHOOSE i \in 1..Len(s) :
                      s[i] = sep /\ \A j \in 1..(i - 1) : s[j] # sep
         IN  <<SubSeq(s, 1, i - 1)>> \o split(SubSeq(s, i + 1, Len(s)), sep)

\* str.strip(ch) for a one-character argument
RECURSIVE strip(_, _)
strip(s, ch) ==
    IF s = <<>> THEN s
    ELSE IF s[1] = ch THEN strip(Tail(s), ch)
    ELSE IF s[Len(s)] = ch THEN strip(SubSeq(s, 1, Len(s) - 1), ch)
    ELSE s

----------------------------------------------------------------------------
\* str.upper() and str.lower() on the characters the keys are made of
upperChar(c) == CASE c = "a" -> "A" [] c = "b" -> "B" [] OTHER -> c
lowerChar(c) == CASE c = "A" -> "a" [] c = "B" -> "b" [] OTHER -> c
upper(s) == [i \in 1..Len(s) |-> upperChar(s[i])]
lower(s) == [i \in 1..Len(s) |-> lowerChar(s[i])]

\* str.replace(old, new) for one-character arguments
replace(s, old, new) == [i \in 1..Len(s) |-> IF s[i] = old THEN new ELSE s[i]]

----------------------------------------------------------------------------
(* Inputs of playMedia *)

ListTypes == {"audio", "video"}

\* media._server._baseurl values: "http://h:80/", and two that do not split
\* into three parts: "http://h" (no port) and "http://[::1]:80" (IPv6)
UrlGood == <<"h","t","t","p",":","/","/","h",":","8","0","/">>
UrlNoPort == <<"h","t","t","p",":","/","/","h">>
UrlIPv6 == <<"h","t","t","p",":","/","/","[",":",":","1","]",":","8","0">>

Item(listType) == [listType |-> listType]

\* A single playable item: it has a listType, or (a playlist) a playlistType
SingleItem(playlistType, listType, baseurl) ==
    [ isPlayQueue |-> FALSE, hasPlaylistType |-> playlistType # "none",
      playlistType |-> playlistType, listType |-> listType, items |-> <<>>,
      playQueueID |-> 0, baseurl |-> baseurl ]

\* An existing PlayQueue: it has items and a playQueueID, and may have a
\* playlistType
PlayQueue(playlistType, items, baseurl) ==
    [ isPlayQueue |-> TRUE, hasPlaylistType |-> playlistType # "none",
      playlistType |-> playlistType, listType |-> "none", items |-> items,
      playQueueID |-> 7, baseurl |-> baseurl ]

Medias ==
    \* every shape of media, on a server with a well-formed address
    { SingleItem("none", t, UrlGood) : t \in ListTypes }
    \cup { SingleItem(t, "none", UrlGood) : t \in ListTypes }
    \cup { PlayQueue("none", items, UrlGood) :
             items \in { <<>>, <<Item("audio")>>, <<Item("video")>>,
                         <<Item("video"), Item("audio")>> } }
    \cup { PlayQueue("audio", <<>>, UrlGood),
           PlayQueue("audio", <<Item("video")>>, UrlGood),
           PlayQueue("video", <<Item("audio")>>, UrlGood) }
    \* media on a server whose address does not split into three parts
    \cup { SingleItem("none", "audio", u) : u \in {UrlNoPort, UrlIPv6} }
    \cup { PlayQueue("none", <<Item("audio")>>, u) : u \in {UrlNoPort, UrlIPv6} }
    \cup { SingleItem("none", "video", UrlNoPort) }

Offsets == {30}

\* **params: keyword arguments other than media and offset (which bind to
\* the named parameters of playMedia and so never reach **params)
AllParams == [commandID |-> 0, shuffle |-> "1"]
ParamsSet == { [k \in K |-> AllParams[k]] : K \in SUBSET (DOMAIN AllParams) }

----------------------------------------------------------------------------
(* Collaborators defined outside sonos.py *)

\* JellyfinClient._nextCommandId: hands out the counter's value and advances
\* the counter by one (identifiers start at 0, one per call, never reused)
_nextCommandId(cid) == [value |-> cid, next |-> cid + 1]

\* JellyfinServer.createPlayQueue: one request to the server, which assigns
\* the new queue's identifier
createPlayQueue(n) == [playQueueID |-> 100 + n]

\* JellyfinServer.createToken: one request to the server, which mints a
\* fresh single-use token
createToken(n) == <<"token", n>>

\* JellyfinClient.sendCommand: one request carrying the given parameters
sendCommand(requests) == requests \o <<"sendCommand">>

----------------------------------------------------------------------------
(* JellyfinSonosClient.playMedia *)

\* lines 72-78: the effective media kind; media.items[0] raises IndexError
\* on an empty list
resolveMediaType(media) ==
    IF media.hasPlaylistType
    THEN [err |-> "none", mediatype |-> media.playlistType]
    ELSE IF media.isPlayQueue
         THEN IF Len(media.items) = 0
              THEN [err |-> "IndexError", mediatype |-> "none"]
              ELSE [err |-> "none", mediatype |-> media.items[1].listType]
         ELSE [err |-> "none", mediatype |-> media.listType]

\* line 80: the only kind a Sonos speaker plays
isSupportedAny(mediatype) == mediatype \in {"audio", "video"}
isSupported(mediatype) == mediatype = "audio"

\* line 85: the three-way unpacking of _baseurl.split(":") raises ValueError
\* unless the split has exactly three parts; lines 86-87 strip the slashes
parseBaseurl(baseurl) ==
    LET parts == split(baseurl, ":")
    IN  IF Len(parts) # 3
        THEN [err |-> "ValueError", protocol |-> <<>>, address |-> <<>>, port |-> <<>>]
        ELSE [err |-> "none", protocol |-> parts[1],
              address |-> strip(parts[2], "/"), port |-> strip(parts[3], "/")]

\* line 108: the commandID field takes the next identifier of the counter
commandIDStale(cid) == [value |-> cid, next |-> cid]
commandIDField(cid) == _nextCommandId(cid)

\* lines 97-112: the fixed protocol fields
fixedFields(url, playQueueID, offset, token, commandID) ==
    [ type |-> "music",
      providerIdentifier |-> "com.jellyfinapp.plugins.library",
      containerKey |-> <<"/playQueues/", playQueueID, "?own=1">>,
      key |-> "media.key",
      offset |-> offset,
      machineIdentifier |-> "server.machineIdentifier",
      protocol |-> url.protocol,
      address |-> url.address,
      port |-> url.port,
      token |-> token,
      commandID |-> commandID,
      XJellyfinClientIdentifier |-> "X_PLEX_IDENTIFIER",
      XJellyfinToken |-> "server._token",
      XJellyfinTargetClientIdentifier |-> "self.machineIdentifier" ]

\* lines 96-114: dict({...}, **params); a keyword argument replaces the
\* entry of the same name
dictFixedWins(fixed, params) ==
    [k \in DOMAIN fixed \cup DOMAIN params |->
        IF k \in DOMAIN fixed THEN fixed[k] ELSE params[k]]
dict(fixed, params) ==
    [k \in DOMAIN fixed \cup DOMAIN params |->
        IF k \in DOMAIN params THEN params[k] ELSE fixed[k]]

\* line 94: the one call of sendCommand, made once whatever its outcome
sendCommandRetry(requests, sendOk) ==
    IF sendOk THEN sendCommand(requests) ELSE sendCommand(sendCommand(requests))
sendCommandCall(requests, sendOk) == sendCommand(requests)

NoPayload == <<>>

\* A call that raises before sendCommand is reached: the exception leaves
\* playMedia and self._commandId is as it was
failedReset(cid, error, resolved, requests, nPq, nTok) ==
    [ commandId |-> 0,
      r |-> [ error |-> error, resolved |-> resolved, requests |-> requests,
              dispatched |-> FALSE, payload |-> NoPayload, counterValue |-> -1,
              playQueues |-> nPq, tokens |-> nTok ] ]
failed(cid, error, resolved, requests, nPq, nTok) ==
    [ commandId |-> cid,
      r |-> [ error |-> error, resolved |-> resolved, requests |-> requests,
              dispatched |-> FALSE, payload |-> NoPayload, counterValue |-> -1,
              playQueues |-> nPq, tokens |-> nTok ] ]

\* lines 70-115, in evaluation order.  outcome says which of the requests
\* the call makes fails, if any.
playMediaBody(cid, media, offset, params, outcome, nPq, nTok) ==
    LET pqOk == outcome # "playQueueFails"
        tokOk == outcome # "tokenFails"
        sendOk == outcome # "transportFails"
        resolved == resolveMediaType(media)
        url == parseBaseurl(media.baseurl)
        reqPq == IF media.isPlayQueue THEN <<>> ELSE <<"createPlayQueue">>
        nPq1 == IF media.isPlayQueue THEN nPq ELSE nPq + 1
        playQueueID == IF media.isPlayQueue THEN media.playQueueID
                       ELSE createPlayQueue(nPq).playQueueID
        reqTok == reqPq \o <<"createToken">>
        next == commandIDField(cid)
        fixed == fixedFields(url, playQueueID, offset, createToken(nTok), next.value)
    IN  IF resolved.err # "none"
        THEN failed(cid, resolved.err, resolved, <<>>, nPq, nTok)
        ELSE IF ~isSupported(resolved.mediatype)
        THEN failed(cid, "BadRequest", resolved, <<>>, nPq, nTok)
        ELSE IF url.err # "none"
        THEN failed(cid, url.err, resolved, <<>>, nPq, nTok)
        ELSE IF ~media.isPlayQueue /\ ~pqOk
        THEN failed(cid, "PlayQueueError", resolved, reqPq, nPq, nTok)
        ELSE IF ~tokOk
        THEN failed(cid, "TokenError", resolved, reqTok, nPq1, nTok)
        ELSE [ commandId |-> next.next,
               r |-> [ error |-> IF sendOk THEN "none" ELSE "TransportError",
                       resolved |-> resolved,
                       requests |-> sendCommandCall(reqTok, sendOk),
                       dispatched |-> TRUE,
                       payload |-> dict(fixed, params),
                       counterValue |-> next.value,
                       playQueues |-> nPq1, tokens |-> nTok + 1 ] ]

\* The ways the requests of a call can end: a call that raises before its
\* first request has no request to fail
Outcomes(media) ==
    IF /\ resolveMediaType(media).err = "none"
       /\ isSupported(resolveMediaType(media).mediatype)
       /\ parseBaseurl(media.baseurl).err = "none"
    THEN {"ok", "tokenFails", "transportFails"}
         \cup (IF media.isPlayQueue THEN {} ELSE {"playQueueFails"})
    ELSE {"ok"}

NoCall ==
    [ op |-> "none", media |-> <<>>, offset |-> 0, params |-> <<>>,
      commandIdBefore |-> 0, playQueuesBefore |-> 0, tokensBefore |-> 0,
      r |-> [ error |-> "none", resolved |-> [err |-> "none", mediatype |-> "none"],
              requests |-> <<>>,
              dispatched |-> FALSE, payload |-> NoPayload, counterValue |-> -1,
              playQueues |-> 0, tokens |-> 0 ] ]

playMedia(media, offset, params, outcome) ==
    /\ nCalls < MaxCalls
    /\ LET out == playMediaBody(_commandId, media, offset, params, outcome,
                                playQueuesCreated, tokensMinted)
       IN  /\ _commandId' = out.commandId
           /\ playQueuesCreated' = out.r.playQueues
           /\ tokensMinted' = out.r.tokens
           /\ sent' = IF out.r.dispatched
                      THEN Append(sent, [ commandID |-> out.r.payload.commandID,
                                          counterValue |-> out.r.counterValue,
                                          override |-> "commandID" \in DOMAIN params ])
                      ELSE sent
           /\ last' = [ op |-> "playMedia", media |-> media, offset |-> offset,
                        params |-> params, commandIdBefore |-> _commandId,
                        playQueuesBefore |-> playQueuesCreated,
                        tokensBefore |-> tokensMinted, r |-> out.r ]
    /\ nCalls' = nCalls + 1
    /\ UNCHANGED <<configVars, alertVars, photoVars, concVars>>

\* JellyfinSonosClient.__init__, line 61, and a server that has served nothing
InitSonos ==
    /\ _commandId = 0
    /\ sent = <<>>
    /\ last = NoCall
    /\ nCalls = 0
    /\ tokensMinted = 0
    /\ playQueuesCreated = 0

----------------------------------------------------------------------------
(* JellyfinConfig *)

\* Python values: a type tag and the text of the value
None == <<"none", "">>
PyStr(t) == <<"str", t>>
PyInt(t) == <<"int", t>>
PyFloat(t) == <<"float", t>>
PyBool(t) == <<"bool", t>>
Digits == {"0", "1", "2", "3"}

\* Keys: "a.a" and its spellings in other case, keys without a dot, keys
\* with two dots, and keys with an empty section or name
Keys ==
    { <<"a", ".", "a">>, <<"A", ".", "a">>, <<"a", ".", "A">>,
      <<"a">>, <<"a", "a">>, <<"a", ".", ".">>, <<"a", ".", "a", ".", "a">>,
      <<".", "a">>, <<"a", ".">> }

Defaults == {None, PyStr("3"), PyInt("3")}
Casts == {"none", "int", "bool"}
EnvValues == {PyStr("1"), PyStr("x")}

\* The INI file: (section, option, value) in file order.  ConfigParser keeps
\* the case of section names, lower-cases option names and rejects a file
\* that repeats an option within a section.
Entry(section, name, value) == [section |-> section, name |-> name, value |-> value]
Files ==
    { <<>>,
      <<Entry(<<"a">>, <<"a">>, PyStr("2"))>>,
      <<Entry(<<"A">>, <<"a">>, PyStr("y"))>>,
      <<Entry(<<"a">>, <<"a">>, PyStr("2")), Entry(<<"A">>, <<"a">>, PyStr("y"))>>,
      <<Entry(<<"A">>, <<"a">>, PyStr("y")), Entry(<<"a">>, <<"a">>, PyStr("2"))>> }

\* utils.cast(func, value): a missing value stays missing; the numeric
\* coercions are tolerant and yield none for text that is no number; any
\* other func is applied as it is, and bool() of the helper raises on text
\* that names no truth value
cast(func, value) ==
    IF value = None THEN [err |-> "none", value |-> None]
    ELSE IF func \in {"int", "float"}
    THEN IF value[1] = func THEN [err |-> "none", value |-> value]
         ELSE IF value[2] \in Digits
              THEN [err |-> "none", value |-> <<func, value[2]>>]
              ELSE [err |-> "none", value |-> None]
    ELSE IF func = "bool"
    THEN IF value[2] \in {"0", "1"}
         THEN [err |-> "none", value |-> PyBool(value[2])]
         ELSE [err |-> "ValueError", value |-> None]
    ELSE [err |-> "none", value |-> value]

\* lines 44-51: every option under its lower-cased section and name, a later
\* entry replacing an earlier one of the same lower-cased names
RECURSIVE _asDict(_)
_asDict(f) ==
    IF f = <<>> THEN <<>>
    ELSE LET config == _asDict(SubSeq(f, 1, Len(f) - 1))
             e == f[Len(f)]
             s == lower(e.section)
             n == lower(e.name)
             old == IF s \in DOMAIN config THEN config[s] ELSE <<>>
         IN  [x \in DOMAIN config \cup {s} |->
                 IF x = s
                 THEN [y \in DOMAIN old \cup {n} |-> IF y = n THEN e.value ELSE old[y]]
                 ELSE config[x]]

\* line 34: the name of the environment variable of a key
envkeyNoReplace(key) == <<"PLEXAPI_">> \o upper(key)
envkey(key) == <<"PLEXAPI_">> \o replace(upper(key), ".", "_")

\* os.environ.get(name)
environGet(env, name) == IF name \in DOMAIN env THEN env[name] ELSE None

\* lines 32-42.  The result is the returned value, whether an exception
\* left the method, and self.data after the call.
getValueNoneOnError(value, default, castfn, d) ==
    IF castfn = "none"
    THEN [value |-> value, raised |-> FALSE, data |-> d]
    ELSE LET c == cast(castfn, value)
         IN  [value |-> c.value, raised |-> FALSE, data |-> d]
getValue(value, default, castfn, d) ==
    IF castfn = "none"
    THEN [value |-> value, raised |-> FALSE, data |-> d]
    ELSE LET c == cast(castfn, value)
         IN  IF c.err = "none"
             THEN [value |-> c.value, raised |-> FALSE, data |-> d]
             ELSE [value |-> default, raised |-> FALSE, data |-> d]

getPersistedLenient(d, key, default, castfn) ==
    LET parts == split(lower(key), ".")
    IN  IF Len(parts) < 2
        THEN [value |-> default, raised |-> FALSE, data |-> d]
        ELSE LET section == parts[1]
                 name == parts[2]
                 value == IF section \in DOMAIN d /\ name \in DOMAIN d[section]
                          THEN d[section][name] ELSE default
             IN  getValue(value, default, castfn, d)
getPersisted(d, key, default, castfn) ==
    LET parts == split(lower(key), ".")
    IN  IF Len(parts) # 2
        THEN [value |-> default, raised |-> FALSE, data |-> d]
        ELSE LET section == parts[1]
                 name == parts[2]
                 value == IF section \in DOMAIN d /\ name \in DOMAIN d[section]
                          THEN d[section][name] ELSE default
             IN  getValue(value, default, castfn, d)

getCaching(d, env, key, default, castfn) ==
    LET value == environGet(env, envkey(key))
        parts == split(lower(key), ".")
    IN  IF value = None
        THEN getPersisted(d, key, default, castfn)
        ELSE IF Len(parts) # 2
        THEN getValue(value, default, castfn, d)
        ELSE getValue(value, default, castfn,
                      [x \in DOMAIN d \cup {parts[1]} |->
                          IF x = parts[1] THEN [y \in {parts[2]} |-> value] ELSE d[x]])
get(d, env, key, default, castfn) ==
    LET value == environGet(env, envkey(key))
    IN  IF value = None
        THEN getPersisted(d, key, default, castfn)
        ELSE getValue(value, default, castfn, d)

\* The keys whose environment variables the host sets and removes
EnvKeys == { <<"a", ".", "a">>, <<"a">>, <<"a", ".", ".">> }
EnvNames == { envkey(k) : k \in EnvKeys }

NoGet ==
    [ op |-> "none", key |-> <<>>, default |-> None, castfn |-> "none",
      value |-> None, raised |-> FALSE ]

\* persisted(d, key): the entry of a well-formed key in self.data, or None
persisted(d, key) ==
    LET parts == split(lower(key), ".")
    IN  IF Len(parts) = 2 /\ parts[1] \in DOMAIN d /\ parts[2] \in DOMAIN d[parts[1]]
        THEN d[parts[1]][parts[2]] ELSE None

Get(key, default, castfn) ==
    /\ LET r == get(data, environ, key, default, castfn)
       IN  /\ data' = r.data
           /\ cfgLast' = [ op |-> "get", key |-> key, default |-> default,
                           castfn |-> castfn, value |-> r.value, raised |-> r.raised ]
           /\ shadowed' = IF /\ envkey(key) \in DOMAIN environ
                             /\ persisted(data, key) # None
                             /\ castfn = "none"
                             /\ r.value = environ[envkey(key)]
                          THEN shadowed \cup {envkey(key)}
                          ELSE shadowed
    /\ UNCHANGED <<environ, file>>
    /\ UNCHANGED <<sonosVars, alertVars, photoVars, concVars>>

\* os.environ[name] = value
SetEnv(name, value) ==
    /\ environ' = [n \in DOMAIN environ \cup {name} |->
                      IF n = name THEN value ELSE environ[n]]
    /\ cfgLast' = [NoGet EXCEPT !.op = "setenv"]
    /\ UNCHANGED <<file, data, shadowed>>
    /\ UNCHANGED <<sonosVars, alertVars, photoVars, concVars>>

\* del os.environ[name]
RemoveEnv(name) ==
    /\ name \in DOMAIN environ
    /\ environ' = [n \in DOMAIN environ \ {name} |-> environ[n]]
    /\ cfgLast' = [NoGet EXCEPT !.op = "removeenv"]
    /\ UNCHANGED <<file, data, shadowed>>
    /\ UNCHANGED <<sonosVars, alertVars, photoVars, concVars>>

\* JellyfinConfig.__init__, lines 19-22, in a process whose environment sets
\* none of the variables
InitConfig ==
    /\ environ = <<>>
    /\ file \in Files
    /\ data = _asDict(file)
    /\ cfgLast = NoGet
    /\ shadowed = {}

----------------------------------------------------------------------------
(* AlertListener *)

\* Inbound messages, by what json.loads makes of them: text that is no JSON,
\* a JSON array, a JSON object without a NotificationContainer entry, and
\* objects whose NotificationContainer is an object, an array or a number
Message(valid, top, entry, payload) ==
    [valid |-> valid, top |-> top, entry |-> entry, payload |-> payload]
Messages ==
    { Message(FALSE, "none", "absent", "none"),
      Message(TRUE, "array", "absent", "none"),
      Message(TRUE, "object", "absent", "none"),
      Message(TRUE, "object", "object", "p1"),
      Message(TRUE, "object", "array", "p2"),
      Message(TRUE, "object", "number", "p3") }

\* What a callback does when called: it returns, raises an Exception, or
\* raises a BaseException that is no Exception (SystemExit, KeyboardInterrupt)
CallbackOutcomes == {"returns", "Exception", "BaseException"}

\* line 79: json.loads(message)['NotificationContainer']
decode(message) ==
    IF ~message.valid THEN [err |-> "JSONDecodeError", data |-> "none"]
    ELSE IF message.top # "object" THEN [err |-> "TypeError", data |-> "none"]
    ELSE IF message.entry = "absent" THEN [err |-> "KeyError", data |-> "none"]
    ELSE [err |-> "none", data |-> message.payload]

\* line 80: log.debug('Alert: %s %s %s', *data) unpacks data at the call, and a
\* number cannot be unpacked
logDebug(message) ==
    IF message.entry = "number" THEN "TypeError" ELSE "none"

\* The result of a handler: whether the callback was called and with what,
\* whether log.error was called, and the exception that left the handler
Handled(invoked, payload, logged, escaped) ==
    [invoked |-> invoked, payload |-> payload, logged |-> logged, escaped |-> escaped]

\* lines 72-84
_onMessageNoCatch(callback, message, outcome) ==
    LET d == decode(message)
    IN  IF d.err # "none" THEN Handled(FALSE, "none", FALSE, d.err)
        ELSE IF logDebug(message) # "none"
        THEN Handled(FALSE, "none", FALSE, logDebug(message))
        ELSE IF ~callback THEN Handled(FALSE, "none", FALSE, "none")
        ELSE Handled(TRUE, d.data, FALSE, IF outcome = "returns" THEN "none" ELSE outcome)
_onMessage(callback, message, outcome) ==
    LET d == decode(message)
    IN  IF d.err # "none" THEN Handled(FALSE, "none", TRUE, "none")
        ELSE IF logDebug(message) # "none" THEN Handled(FALSE, "none", TRUE, "none")
        ELSE IF ~callback THEN Handled(FALSE, "none", FALSE, "none")
        ELSE CASE outcome = "returns" -> Handled(TRUE, d.data, FALSE, "none")
               [] outcome = "Exception" -> Handled(TRUE, d.data, TRUE, "none")
               [] OTHER -> Handled(TRUE, d.data, FALSE, outcome)

\* lines 86-97: the error is logged, then handed to the error callback
_onError(callbackError, outcome) ==
    IF ~callbackError THEN Handled(FALSE, "none", TRUE, "none")
    ELSE CASE outcome = "returns" -> Handled(TRUE, "err", TRUE, "none")
           [] outcome = "Exception" -> Handled(TRUE, "err", TRUE, "none")
           [] OTHER -> Handled(TRUE, "err", TRUE, outcome)

NoAlert ==
    [ op |-> "none", message |-> Message(FALSE, "none", "absent", "none"),
      outcome |-> "returns", h |-> Handled(FALSE, "none", FALSE, "none"),
      error |-> "none", running |-> FALSE ]

\* The listener is receiving: its thread is in run_forever on an open
\* connection
Receiving == pc = "run_forever" /\ ~wsClosed

\* Thread.start(), inherited (line 10): a thread can be started only once
startAgain(isStarted, at) ==
    IF at = "returned"
    THEN [error |-> "none", started |-> TRUE, pc |-> "import", reset |-> TRUE]
    ELSE IF isStarted
    THEN [error |-> "RuntimeError", started |-> isStarted, pc |-> at, reset |-> FALSE]
    ELSE [error |-> "none", started |-> TRUE, pc |-> "import", reset |-> FALSE]
startThread(isStarted, at) ==
    IF isStarted
    THEN [error |-> "RuntimeError", started |-> isStarted, pc |-> at, reset |-> FALSE]
    ELSE [error |-> "none", started |-> TRUE, pc |-> "import", reset |-> FALSE]

start ==
    /\ LET r == startThread(started, pc)
       IN  /\ started' = r.started
           /\ pc' = r.pc
           /\ _ws' = IF r.reset THEN "None" ELSE _ws
           /\ wsClosed' = IF r.reset THEN FALSE ELSE wsClosed
           /\ alertLast' = [NoAlert EXCEPT !.op = "start", !.error = r.error]
    /\ UNCHANGED <<websocket, _callback, _callbackError, arrived, delivered>>
    /\ UNCHANGED <<sonosVars, configVars, photoVars, concVars>>

\* run(), lines 51-55: without the websocket library run() returns at once
runImport ==
    /\ pc = "import"
    /\ pc' = IF websocket THEN "create" ELSE "returned"
    /\ UNCHANGED <<started, _ws, wsClosed, websocket, _callback, _callbackError,
                   arrived, delivered, alertLast>>
    /\ UNCHANGED <<sonosVars, configVars, photoVars, concVars>>

\* run(), lines 57-60: self._ws = websocket.WebSocketApp(...)
runCreate ==
    /\ pc = "create"
    /\ _ws' = "WebSocketApp"
    /\ pc' = "created"
    /\ UNCHANGED <<started, wsClosed, websocket, _callback, _callbackError,
                   arrived, delivered, alertLast>>
    /\ UNCHANGED <<sonosVars, configVars, photoVars, concVars>>

\* run(), line 62: self._ws.run_forever(); on a connection that close() has
\* closed it returns, and run() with it
runForever ==
    /\ \/ pc = "created"
       \/ pc = "run_forever" /\ wsClosed
    /\ pc' = IF wsClosed THEN "returned" ELSE "run_forever"
    /\ UNCHANGED <<started, _ws, wsClosed, websocket, _callback, _callbackError,
                   arrived, delivered, alertLast>>
    /\ UNCHANGED <<sonosVars, configVars, photoVars, concVars>>

\* stop(), lines 64-70: self._ws.close(); None has no close()
stopUnguarded(ws) == [error |-> "none", closes |-> TRUE]
stopBody(ws) ==
    IF ws = "None" THEN [error |-> "AttributeError", closes |-> FALSE]
    ELSE [error |-> "none", closes |-> TRUE]

stop ==
    /\ LET r == stopBody(_ws)
       IN  /\ wsClosed' = (wsClosed \/ r.closes)
           /\ alertLast' = [NoAlert EXCEPT !.op = "stop", !.error = r.error]
    /\ UNCHANGED <<started, pc, _ws, websocket, _callback, _callbackError,
                   arrived, delivered>>
    /\ UNCHANGED <<sonosVars, configVars, photoVars, concVars>>

\* The server or the network closes the connection: run_forever returns
transportClosed ==
    /\ Receiving
    /\ wsClosed' = TRUE
    /\ pc' = "returned"
    /\ alertLast' = [NoAlert EXCEPT !.op = "closed"]
    /\ UNCHANGED <<started, _ws, websocket, _callback, _callbackError,
                   arrived, delivered>>
    /\ UNCHANGED <<sonosVars, configVars, photoVars, concVars>>

\* An exception that leaves a handler leaves it into WebSocketApp, which
\* either goes on receiving or lets it end run_forever (survives)
afterHandler(h, survives) ==
    IF h.escaped = "none" \/ survives THEN "run_forever" ELSE "returned"

\* The transport delivers a message: WebSocketApp calls _onMessage
onMessage(message, outcome, survives) ==
    /\ Receiving
    /\ Len(arrived) < MaxEvents
    /\ LET h == _onMessage(_callback, message, outcome)
       IN  /\ arrived' = Append(arrived, message)
           /\ delivered' = IF h.invoked THEN Append(delivered, h.payload) ELSE delivered
           /\ pc' = afterHandler(h, survives)
           /\ alertLast' = [ op |-> "_onMessage", message |-> message,
                             outcome |-> outcome, h |-> h, error |-> "none",
                             running |-> afterHandler(h, survives) = "run_forever" ]
    /\ UNCHANGED <<started, _ws, wsClosed, websocket, _callback, _callbackError>>
    /\ UNCHANGED <<sonosVars, configVars, photoVars, concVars>>

\* The transport reports an error: WebSocketApp calls _onError
onError(outcome, survives) ==
    /\ Receiving
    /\ LET h == _onError(_callbackError, outcome)
       IN  /\ pc' = afterHandler(h, survives)
           /\ alertLast' = [ op |-> "_onError", message |-> NoAlert.message,
                             outcome |-> outcome, h |-> h, error |-> "none",
                             running |-> afterHandler(h, survives) = "run_forever" ]
    /\ UNCHANGED <<started, _ws, wsClosed, websocket, _callback, _callbackError,
                   arrived, delivered>>
    /\ UNCHANGED <<sonosVars, configVars, photoVars, concVars>>

\* __init__, lines 41-48, with or without callbacks, in a process with or
\* without the websocket library
InitAlert ==
    /\ started = FALSE
    /\ pc = "notStarted"
    /\ _ws = "None"
    /\ wsClosed = FALSE
    /\ websocket \in BOOLEAN
    /\ _callback \in BOOLEAN
    /\ _callbackError \in BOOLEAN
    /\ arrived = <<>>
    /\ delivered = <<>>
    /\ alertLast = NoAlert

\* An AlertListener nobody uses
IdleAlert ==
    /\ started = FALSE
    /\ pc = "notStarted"
    /\ _ws = "None"
    /\ wsClosed = FALSE
    /\ websocket = TRUE
    /\ _callback = FALSE
    /\ _callbackError = FALSE
    /\ arrived = <<>>
    /\ delivered = <<>>
    /\ alertLast = NoAlert

\* A configuration nobody reads
IdleConfig ==
    /\ environ = <<>> /\ file = <<>> /\ data = <<>> /\ cfgLast = NoGet /\ shadowed = {}

----------------------------------------------------------------------------
(* Photoalbum and Photo *)

\* A path such as '/a/1/children' is the sequence of its segments; '' is <<>>
EmptyStr == <<>>
AlbumKey == <<"a", "1">>
ChildrenKey == <<"a", "1", "children">>

\* str.replace('/children', ''): every '/children' segment dropped
RECURSIVE removeChildren(_)
removeChildren(path) ==
    IF path = <<>> THEN <<>>
    ELSE IF Head(path) = "children" THEN removeChildren(Tail(path))
         ELSE <<Head(path)>> \o removeChildren(Tail(path))

\* One row for each attribute-reading line of Photoalbum._loadData: the field
\* assigned, the attribute read and how its text is converted
Row(field, attr, load) == [field |-> field, attr |-> attr, load |-> load]
PhotoalbumRows ==
    { Row("addedAt", "addedAt", "datetime"),                   \* line 55
      Row("art", "art", "get"),                                \* line 56
      Row("composite", "composite", "get"),                    \* line 57
      Row("guid", "guid", "get"),                              \* line 59
      Row("index", "index", "int"),                            \* line 60
      Row("lastRatedAt", "lastRatedAt", "datetime"),           \* line 62
      Row("librarySectionID", "librarySectionID", "int"),      \* line 63
      Row("librarySectionKey", "librarySectionKey", "get"),    \* line 64
      Row("librarySectionTitle", "librarySectionTitle", "get"),\* line 65
      Row("ratingKey", "ratingKey", "int"),                    \* line 67
      Row("summary", "summary", "get"),                        \* line 68
      Row("thumb", "thumb", "get"),                            \* line 69
      Row("title", "title", "get"),                            \* line 70
      Row("type", "type", "get"),                              \* line 72
      Row("updatedAt", "updatedAt", "datetime"),               \* line 73
      Row("userRating", "userRating", "float") }               \* line 74

\* The same for Photo._loadData
PhotoRows ==
    { Row("addedAt", "addedAt", "datetime"),                   \* line 202
      Row("createdAtAccuracy", "createdAtAccuracy", "get"),    \* line 203
      Row("createdAtTZOffset", "createdAtTZOffset", "int"),    \* line 204
      Row("guid", "guid", "get"),                              \* line 206
      Row("index", "index", "int"),                            \* line 207
      Row("lastRatedAt", "lastRatedAt", "datetime"),           \* line 209
      Row("librarySectionID", "librarySectionID", "int"),      \* line 210
      Row("librarySectionKey", "librarySectionKey", "get"),    \* line 211
      Row("librarySectionTitle", "librarySectionTitle", "get"),\* line 212
      Row("originallyAvailableAt", "originallyAvailableAt", "date"), \* line 215
      Row("parentGuid", "parentGuid", "get"),                  \* line 216
      Row("parentIndex", "parentIndex", "int"),                \* line 217
      Row("parentKey", "parentKey", "get"),                    \* line 218
      Row("parentRatingKey", "parentRatingKey", "int"),        \* line 219
      Row("parentThumb", "parentThumb", "get"),                \* line 220
      Row("parentTitle", "parentTitle", "get"),                \* line 221
      Row("ratingKey", "ratingKey", "int"),                    \* line 222
      Row("sourceURI", "source", "get"),                       \* line 223
      Row("summary", "summary", "get"),                        \* line 224
      Row("thumb", "thumb", "get"),                            \* line 226
      Row("title", "title", "get"),                            \* line 227
      Row("type", "type", "get"),                              \* line 229
      Row("updatedAt", "updatedAt", "datetime"),               \* line 230
      Row("userRating", "userRating", "float"),                \* line 231
      Row("year", "year", "int") }                             \* line 232

\* The child tags findItems looks for: media.Field, media.Media, media.Tag
ChildRows(cls) ==
    IF cls = "Photoalbum" THEN { Row("fields", "Field", "findItems") }
    ELSE { Row("fields", "Field", "findItems"),
           Row("media", "Media", "findItems"),
           Row("tags", "Tag", "findItems") }

Rows(cls) == IF cls = "Photoalbum" THEN PhotoalbumRows ELSE PhotoRows
Classes == {"Photoalbum", "Photo"}
FieldNames(cls) ==
    {r.field : r \in Rows(cls) \cup ChildRows(cls)} \cup {"key", "listType", "titleSort"}

\* Attribute texts of a response node.  A well-formed node carries a number
\* where a number is read and a date or timestamp where a time is read; a
\* garbled one carries the text 'x' everywhere.
Dates == {"2020-01-02"}
ValidText(attr) ==
    IF attr = "originallyAvailableAt" THEN PyStr("2020-01-02")
    ELSE IF \E r \in PhotoalbumRows \cup PhotoRows :
               r.attr = attr /\ r.load \in {"int", "float", "datetime"}
         THEN PyStr("1")
         ELSE PyStr("v")

OtherAttrs == {r.attr : r \in PhotoalbumRows \cup PhotoRows} \ {"title"}
KeyTexts == {None, AlbumKey, ChildrenKey}     \* None: the node has no key
RestKinds == {"absent", "valid", "garbled"}

\* The response node: its attributes and the tags of its children
Node(keyText, hasTitle, hasTitleSort, rest) ==
    LET names == (IF keyText = None THEN {} ELSE {"key"})
                 \cup (IF hasTitle THEN {"title"} ELSE {})
                 \cup (IF hasTitleSort THEN {"titleSort"} ELSE {})
                 \cup (IF rest = "absent" THEN {} ELSE OtherAttrs)
    IN  [ attrib |-> [a \in names |->
                        IF a = "key" THEN keyText
                        ELSE IF a = "title" THEN PyStr("t")
                        ELSE IF a = "titleSort" THEN PyStr("s")
                        ELSE IF rest = "garbled" THEN PyStr("x")
                        ELSE ValidText(a)],
          children |-> IF rest = "absent" THEN <<>>
                       ELSE <<"Field", "Media", "Bogus", "Tag", "Field">> ]

Nodes ==
    { Node(k, t, s, r) : k \in KeyTexts, t \in BOOLEAN, s \in BOOLEAN, r \in RestKinds }

\* utils.toDatetime(value, format=None): a timestamp when no format is given,
\* a date in the format otherwise; none for missing and for unparsable text
toDatetime(value, format) ==
    IF value = None THEN None
    ELSE IF format = "timestamp" /\ value[2] \in Digits THEN <<"datetime", value[2]>>
    ELSE IF format = "%Y-%m-%d" /\ value[2] \in Dates THEN <<"datetime", value[2]>>
    ELSE None

\* self.findItems(data, cls): the children of the node that carry cls.TAG;
\* children with any other tag are skipped
findItems(node, tag) == SelectSeq(node.children, LAMBDA c : c = tag)

\* Playable._loadData(self, data): reads session attributes only
Playable_loadData(node) == [err |-> "none"]

\* data.attrib.get(name, default), without the default: a missing attribute
\* is None
attribGetNone(node, name, default) ==
    IF name \in DOMAIN node.attrib THEN node.attrib[name] ELSE None

\* data.attrib.get(name, default)
attribGet(node, name, default) ==
    IF name \in DOMAIN node.attrib THEN node.attrib[name] ELSE default

\* One attribute-reading line: data.attrib.get(attr), converted
loadField(node, row) ==
    LET text == attribGet(node, row.attr, None)
    IN  CASE row.load = "get" -> [err |-> "none", value |-> text]
          [] row.load \in {"int", "float"} -> cast(row.load, text)
          [] row.load = "datetime" ->
                [err |-> "none", value |-> toDatetime(text, "timestamp")]
          [] row.load = "date" ->
                [err |-> "none", value |-> toDatetime(text, "%Y-%m-%d")]

\* Photoalbum._loadData (lines 53-74) and Photo._loadData (lines 199-232):
\* the error raised, if any, and the fields assigned
_loadData(cls, node) ==
    LET loaded == [r \in Rows(cls) |-> loadField(node, r)]
        scalar(f) == loaded[CHOOSE r \in Rows(cls) : r.field = f].value
        keyText == attribGet(node, "key", EmptyStr)
        errors == ({loaded[r].err : r \in Rows(cls)}
                   \cup (IF cls = "Photo" THEN {Playable_loadData(node).err} ELSE {}))
                  \ {"none"}
    IN  [ raised |-> IF errors = {} THEN "none" ELSE CHOOSE e \in errors : TRUE,
          fields |->
            [f \in FieldNames(cls) |->
               IF f = "key"
               THEN IF cls = "Photoalbum" THEN removeChildren(keyText) ELSE keyText
               ELSE IF f = "listType" THEN PyStr("photo")
               ELSE IF f = "titleSort" THEN attribGet(node, "titleSort", scalar("title"))
               ELSE IF \E r \in ChildRows(cls) : r.field = f
               THEN findItems(node, (CHOOSE r \in ChildRows(cls) : r.field = f).attr)
               ELSE scalar(f)] ]

\* The titles callers ask for
Titles == { <<"a", "b">>, <<"A", "b">>, <<"b", "b">> }

\* What the server holds: the photos of album '/a/1' under '/a/1/children'
Library(key) == IF key = ChildrenKey THEN << <<"A", "b">>, <<"a", "b">> >> ELSE <<>>

\* self.fetchItem(key, cls, title__iexact=title): the first item under key
\* whose title equals title whatever the case, NotFound when there is none
fetchItem(key, cls, title) ==
    LET items == Library(key)
        hits == { i \in 1..Len(items) : lower(items[i]) = lower(title) }
    IN  IF hits = {} THEN [err |-> "NotFound", value |-> None]
        ELSE [err |-> "none",
              value |-> <<cls>> \o items[CHOOSE i \in hits : \A j \in hits : i <= j]]

\* Photoalbum.photo, lines 96-97
photoBody(self, title) == fetchItem(self["key"] \o <<"children">>, "Photo", title)

\* Photoalbum.get, line 120: the attribute lookup of self.episode fails,
\* Photoalbum has no member of that name
getBody(self, title) == [err |-> "AttributeError", value |-> None]

NoNode == [attrib |-> <<>>, children |-> <<>>]
NoAlbum == <<>>
NoPhotoOp ==
    [op |-> "none", cls |-> "none", node |-> NoNode, raised |-> "none",
     obj |-> <<>>, title |-> <<>>, result |-> None]

\* cls(server, data): the constructor hands the node to _loadData
load(cls, node) ==
    LET l == _loadData(cls, node)
    IN  /\ photoLast' = [NoPhotoOp EXCEPT !.op = "_loadData", !.cls = cls,
                            !.node = node, !.raised = l.raised, !.obj = l.fields]
        /\ album' = IF cls = "Photoalbum" /\ l.raised = "none" THEN l.fields ELSE album
        /\ UNCHANGED <<sonosVars, configVars, alertVars, concVars>>

loadPhotoalbum(node) == load("Photoalbum", node)
loadPhoto(node) == load("Photo", node)

\* album.photo(title)
photo(title) ==
    /\ album # NoAlbum
    /\ LET r == photoBody(album, title)
       IN  photoLast' = [NoPhotoOp EXCEPT !.op = "photo", !.cls = "Photoalbum",
                            !.title = title, !.raised = r.err, !.result = r.value]
    /\ UNCHANGED <<album, sonosVars, configVars, alertVars, concVars>>

\* album.get(title)
getPhoto(title) ==
    /\ album # NoAlbum
    /\ LET r == getBody(album, title)
       IN  photoLast' = [NoPhotoOp EXCEPT !.op = "get", !.cls = "Photoalbum",
                            !.title = title, !.raised = r.err, !.result = r.value]
    /\ UNCHANGED <<album, sonosVars, configVars, alertVars, concVars>>

InitPhoto ==
    /\ album = NoAlbum
    /\ photoLast = NoPhotoOp

\* No photo library in use
IdlePhoto == InitPhoto

----------------------------------------------------------------------------
(* playMedia called from several threads on one JellyfinSonosClient *)

Threads == {"t1", "t2", "t3"}

\* A caller outside playMedia
Outside == [pc |-> "outside", local |-> 0, commandID |-> 0]

\* The first half of the counter update that evaluating the commandID field
\* (line 108) performs: the thread loads self._commandId.  Nothing in
\* playMedia or in __init__ (line 61) takes a lock around it.
readCounter(t) ==
    /\ nCalls < MaxCalls
    /\ threads[t].pc = "outside"
    /\ threads' = [threads EXCEPT ![t] = [Outside EXCEPT !.pc = "loaded",
                                                        !.local = _commandId]]
    /\ overlapped' = (overlapped \/ \E u \in Threads \ {t} : threads[u].pc = "loaded")
    /\ nCalls' = nCalls + 1
    /\ UNCHANGED <<_commandId, sent, last, tokensMinted, playQueuesCreated,
                   configVars, alertVars, photoVars>>

\* The second half: the thread stores the advanced counter, computed from the
\* value it loaded, and has its identifier
writeCounter(t) ==
    /\ threads[t].pc = "loaded"
    /\ LET next == commandIDField(threads[t].local)
       IN  /\ _commandId' = next.next
           /\ threads' = [threads EXCEPT ![t].pc = "sending",
                                         ![t].commandID = next.value]
    /\ UNCHANGED <<overlapped, sent, last, nCalls, tokensMinted, playQueuesCreated,
                   configVars, alertVars, photoVars>>

\* line 94: the thread sends its command and returns from playMedia
sendThread(t) ==
    /\ threads[t].pc = "sending"
    /\ sent' = Append(sent, [ commandID |-> threads[t].commandID,
                              counterValue |-> threads[t].commandID,
                              override |-> FALSE ])
    /\ threads' = [threads EXCEPT ![t] = Outside]
    /\ UNCHANGED <<overlapped, _commandId, last, nCalls, tokensMinted,
                   playQueuesCreated, configVars, alertVars, photoVars>>

InitConc ==
    /\ threads = [t \in Threads |-> Outside]
    /\ overlapped = FALSE

\* No thread is calling
IdleConc == InitConc

----------------------------------------------------------------------------
(* Specifications *)

Init == InitSonos /\ IdleConfig /\ IdleAlert /\ IdlePhoto /\ IdleConc

Next ==
    \E media \in Medias, offset \in Offsets, params \in ParamsSet :
        \E outcome \in Outcomes(media) :
            playMedia(media, offset, params, outcome)

Spec == Init /\ [][Next]_vars

InitCfg == InitSonos /\ InitConfig /\ IdleAlert /\ IdlePhoto /\ IdleConc

NextCfg ==
    \/ \E key \in Keys, default \in Defaults, castfn \in Casts : Get(key, default, castfn)
    \/ \E name \in EnvNames, value \in EnvValues : SetEnv(name, value)
    \/ \E name \in EnvNames : RemoveEnv(name)

SpecConfig == InitCfg /\ [][NextCfg]_vars

InitListener == InitSonos /\ IdleConfig /\ InitAlert /\ IdlePhoto /\ IdleConc

NextAlert ==
    \/ start
    \/ runImport
    \/ runCreate
    \/ runForever
    \/ stop
    \/ transportClosed
    \/ \E message \in Messages, outcome \in CallbackOutcomes, survives \in BOOLEAN :
          onMessage(message, outcome, survives)
    \/ \E outcome \in CallbackOutcomes, survives \in BOOLEAN : onError(outcome, survives)

SpecAlert == InitListener /\ [][NextAlert]_vars

InitAlbums == InitSonos /\ IdleConfig /\ IdleAlert /\ InitPhoto /\ IdleConc

NextPhoto ==
    \/ \E node \in Nodes : loadPhotoalbum(node)
    \/ \E node \in Nodes : loadPhoto(node)
    \/ \E title \in Titles : photo(title)
    \/ \E title \in Titles : getPhoto(title)

SpecPhoto == InitAlbums /\ [][NextPhoto]_vars

InitThreads == InitSonos /\ IdleConfig /\ IdleAlert /\ IdlePhoto /\ InitConc

NextConc ==
    \/ \E t \in Threads : readCounter(t)
    \/ \E t \in Threads : writeCounter(t)
    \/ \E t \in Threads : sendThread(t)

SpecConc == InitThreads /\ [][NextConc]_vars

----------------------------------------------------------------------------
(* Claims about playMedia, checked under Spec *)

Called == last.op = "playMedia"
FixedKeys ==
    { "type", "providerIdentifier", "containerKey", "key", "offset",
      "machineIdentifier", "protocol", "address", "port", "token", "commandID",
      "XJellyfinClientIdentifier", "XJellyfinToken",
      "XJellyfinTargetClientIdentifier" }

\* C1 as stated: the commands dispatched by successive playMedia calls carry
\* the commandIDs 0, 1, 2, ... : the i-th dispatched command carries i - 1.
C1_Original ==
    \A i \in 1..Len(sent) : sent[i].commandID = i - 1

\* C1, amended: the i-th dispatched command carries commandID i - 1 unless
\* the caller passed a commandID of its own in **params; the counter advances
\* by exactly one per dispatch either way.
C1_Amended ==
    /\ \A i \in 1..Len(sent) :
          /\ sent[i].counterValue = i - 1
          /\ ~sent[i].override => sent[i].commandID = i - 1
    /\ _commandId = Len(sent)

\* Three dispatches, the second with a caller-supplied commandID: the third
\* carries 2.
C1_Witness ==
    /\ Len(sent) = 3
    /\ ~sent[1].override /\ sent[1].commandID = 0
    /\ sent[2].override
    /\ ~sent[3].override /\ sent[3].commandID = 2

\* C2: a call whose media resolves to a kind other than "audio" raises
\* BadRequest having made no request: no play queue created, no token
\* minted, no command sent, the counter untouched.
C2_NonAudioRejected ==
    (Called /\ last.r.resolved.err = "none" /\ last.r.resolved.mediatype # "audio")
    => /\ last.r.error = "BadRequest"
       /\ last.r.requests = <<>>
       /\ ~last.r.dispatched
       /\ playQueuesCreated = last.playQueuesBefore
       /\ tokensMinted = last.tokensBefore
       /\ _commandId = last.commandIdBefore

\* A video PlayQueue rejected after an earlier call had been dispatched.
C2_Witness ==
    /\ Called /\ last.media.isPlayQueue /\ ~last.media.hasPlaylistType
    /\ last.r.resolved.mediatype = "video"
    /\ last.r.error = "BadRequest"
    /\ Len(sent) = 1 /\ tokensMinted = 1

PassedValidation == Called /\ last.r.error \notin {"BadRequest", "ValueError", "IndexError"}

\* C3 as stated: a call that passes validation makes exactly one outbound
\* request.
C3_Original ==
    PassedValidation => Len(last.r.requests) = 1

\* C3, amended: a call that passes validation requests a play queue (for a
\* single item only), then a token, then sends the command, stopping at the
\* first request that fails; sendCommand is called at most once and never
\* again after a failure.
C3_Amended ==
    PassedValidation =>
        LET pre == IF last.media.isPlayQueue THEN <<>> ELSE <<"createPlayQueue">>
        IN  CASE last.r.error = "PlayQueueError" ->
                    ~last.media.isPlayQueue /\ last.r.requests = pre
              [] last.r.error = "TokenError" ->
                    last.r.requests = pre \o <<"createToken">>
              [] OTHER ->
                    /\ last.r.error \in {"none", "TransportError"}
                    /\ last.r.requests = pre \o <<"createToken", "sendCommand">>

\* A single item whose command the transport failed to deliver.
C3_Witness ==
    /\ Called /\ ~last.media.isPlayQueue
    /\ last.r.error = "TransportError"
    /\ last.r.requests = <<"createPlayQueue", "createToken", "sendCommand">>

\* C4: with a server address that does not split into protocol, address and
\* port, playMedia raises BadRequest before any request is made.
C4_MalformedAddressBadRequest ==
    (Called /\ Len(split(last.media.baseurl, ":")) # 3)
    => (last.r.error = "BadRequest" /\ last.r.requests = <<>>)

\* C5 as stated: the counter never goes down, also across failed calls, and
\* no two transmitted commands carry the same commandID.
C5_Original ==
    /\ Called => _commandId >= last.commandIdBefore
    /\ \A i, j \in 1..Len(sent) : i # j => sent[i].commandID # sent[j].commandID

\* C5, amended: the counter never goes down, also across failed calls, and
\* no two transmitted commands whose commandID came from the counter (the
\* caller passed none in **params) carry the same commandID.
C5_Amended ==
    /\ Called => _commandId >= last.commandIdBefore
    /\ \A i, j \in 1..Len(sent) :
          (i # j /\ ~sent[i].override /\ ~sent[j].override)
          => sent[i].commandID # sent[j].commandID

\* A call that failed after an earlier dispatch, with the counter kept.
C5_Witness ==
    /\ Called /\ last.r.error \in {"TokenError", "ValueError", "IndexError"}
    /\ Len(sent) = 2 /\ ~sent[1].override /\ ~sent[2].override
    /\ _commandId = 2

\* The kind C6 describes
C6_Kind(media) ==
    IF media.hasPlaylistType THEN media.playlistType
    ELSE IF media.isPlayQueue
         THEN (IF media.items = <<>> THEN "none" ELSE media.items[1].listType)
         ELSE media.listType

\* C6: every call either resolves the kind C6 describes, a definite kind,
\* or raises BadRequest.
C6_DefiniteKindOrBadRequest ==
    Called =>
        \/ last.r.error = "BadRequest"
        \/ /\ last.r.resolved.err = "none"
           /\ last.r.resolved.mediatype = C6_Kind(last.media)
           /\ last.r.resolved.mediatype \in ListTypes

\* C7: in the payload handed to sendCommand every **params key has the
\* caller's value, and every fixed field the caller did not pass has its
\* computed value.
C7_ParamsOverride ==
    (Called /\ last.r.dispatched) =>
        LET payload == last.r.payload
            given(k) == k \in DOMAIN last.params
        IN  /\ DOMAIN payload = FixedKeys \cup DOMAIN last.params
            /\ \A k \in DOMAIN last.params : payload[k] = last.params[k]
            /\ ~given("commandID") => payload["commandID"] = last.commandIdBefore
            /\ payload["type"] = "music"
            /\ payload["offset"] = last.offset
            /\ payload["protocol"] = <<"h", "t", "t", "p">>
            /\ payload["address"] = <<"h">>
            /\ payload["port"] = <<"8", "0">>
            /\ payload["token"] = <<"token", last.tokensBefore>>
            /\ payload["containerKey"][2] =
                  (IF last.media.isPlayQueue THEN last.media.playQueueID
                   ELSE 100 + last.playQueuesBefore)

\* The caller's commandID 0 replaces the counter's value 1, next to a key
\* that is no protocol field.
C7_Witness ==
    /\ Called /\ last.r.dispatched
    /\ DOMAIN last.params = {"commandID", "shuffle"}
    /\ last.commandIdBefore = 1
    /\ last.r.payload["commandID"] = 0
    /\ last.r.payload["shuffle"] = "1"

----------------------------------------------------------------------------
(* Claims about JellyfinConfig.get, checked under SpecConfig *)

Got == cfgLast.op = "get"

\* The environment variable of a key: the prefix, then the key upper-cased
\* with its dots replaced by underscores
EnvNameOf(key) ==
    <<"PLEXAPI_">> \o
    [i \in 1..Len(key) |->
        CASE key[i] = "." -> "_" [] key[i] = "a" -> "A" [] OTHER -> key[i]]

\* A key in the '<section>.<variable>' format has exactly one dot
WellFormed(key) == Cardinality({i \in 1..Len(key) : key[i] = "."}) = 1
Malformed(key) == ~WellFormed(key)

\* The persisted value of a key: the value of the last entry of the file
\* whose section and option, compared without case, are the two halves of
\* the key; None when the key is malformed or the file has no such entry
Persisted(key) ==
    IF Malformed(key) THEN None
    ELSE LET dot == CHOOSE i \in 1..Len(key) : key[i] = "."
             hits == { i \in 1..Len(file) :
                         /\ lower(file[i].section) = lower(SubSeq(key, 1, dot - 1))
                         /\ lower(file[i].name) = lower(SubSeq(key, dot + 1, Len(key))) }
         IN  IF hits = {} THEN None
             ELSE file[CHOOSE i \in hits : \A j \in hits : j <= i].value

EnvSet(key) == EnvNameOf(key) \in DOMAIN environ
CastRaises(v) == cfgLast.castfn # "none" /\ cast(cfgLast.castfn, v).err # "none"
Converted(v) == IF cfgLast.castfn = "none" THEN v ELSE cast(cfgLast.castfn, v).value

\* C8: get(key) returns the value of the key's environment variable whenever
\* it is set, whatever the file holds; with the variable not set (never set,
\* or set and removed again) it returns the persisted value.
C8_EnvOverridesPersisted ==
    (Got /\ cfgLast.castfn = "none") =>
        /\ EnvSet(cfgLast.key) => cfgLast.value = environ[EnvNameOf(cfgLast.key)]
        /\ (~EnvSet(cfgLast.key) /\ Persisted(cfgLast.key) # None)
           => cfgLast.value = Persisted(cfgLast.key)

\* A get that returns the persisted value of a key whose environment
\* variable an earlier get had seen override it, and which was then removed.
C8_Witness ==
    /\ Got /\ cfgLast.castfn = "none"
    /\ EnvNameOf(cfgLast.key) \in shadowed
    /\ ~EnvSet(cfgLast.key)
    /\ cfgLast.value = PyStr("2")

\* C9 as stated: with neither layer holding the key get returns the default,
\* and whenever the cast raises, on a value of either layer, get returns the
\* default instead of raising.
C9_Original ==
    Got =>
        LET layer == IF EnvSet(cfgLast.key) THEN environ[EnvNameOf(cfgLast.key)]
                     ELSE Persisted(cfgLast.key)
        IN  /\ ~cfgLast.raised
            /\ layer = None => cfgLast.value = cfgLast.default
            /\ (layer # None /\ CastRaises(layer))
               => cfgLast.value = cfgLast.default

\* C9, amended: with neither layer holding the key get returns the default,
\* passed through the cast when a cast is given, the key is well formed and
\* the cast does not raise on the default; whenever the cast raises, on a
\* value of either layer or on the default, get returns the default as given
\* instead of raising.
C9_Amended ==
    Got =>
        LET layer == IF EnvSet(cfgLast.key) THEN environ[EnvNameOf(cfgLast.key)]
                     ELSE Persisted(cfgLast.key)
        IN  /\ ~cfgLast.raised
            /\ layer = None =>
                  cfgLast.value =
                     (IF WellFormed(cfgLast.key) /\ ~CastRaises(cfgLast.default)
                      THEN Converted(cfgLast.default) ELSE cfgLast.default)
            /\ (layer # None /\ CastRaises(layer))
               => cfgLast.value = cfgLast.default

\* The cast raises on the text in the environment variable and get returns
\* the caller's default, although the file holds a value for the key.
C9_Witness ==
    /\ Got /\ cfgLast.castfn = "bool"
    /\ EnvSet(cfgLast.key) /\ environ[EnvNameOf(cfgLast.key)] = PyStr("x")
    /\ Persisted(cfgLast.key) = PyStr("2")
    /\ cfgLast.default = PyInt("3")
    /\ cfgLast.value = PyInt("3")

\* C10 as stated: for a key that is not in the '<section>.<variable>' format
\* get returns the default and does not raise, whatever the environment and
\* the file hold.
C10_Original ==
    (Got /\ Malformed(cfgLast.key)) =>
        (cfgLast.value = cfgLast.default /\ ~cfgLast.raised)

\* C10, amended: for a key that is not in the '<section>.<variable>' format
\* get does not raise; it returns the default as given when the key's
\* environment variable is not set, and otherwise the variable's value (cast
\* when a cast is given, the default when the cast raises).
C10_Amended ==
    (Got /\ Malformed(cfgLast.key)) =>
        /\ ~cfgLast.raised
        /\ cfgLast.value =
              (IF ~EnvSet(cfgLast.key) THEN cfgLast.default
               ELSE LET v == environ[EnvNameOf(cfgLast.key)]
                    IN  IF CastRaises(v) THEN cfgLast.default ELSE Converted(v))

\* A key with two dots whose first two parts name an entry of the file, with
\* a cast that would change the default: get returns the default as given.
C10_Witness ==
    /\ Got /\ cfgLast.key = <<"a", ".", "a", ".", "a">>
    /\ ~EnvSet(cfgLast.key)
    /\ environ # <<>>
    /\ data # <<>>
    /\ cfgLast.castfn = "int"
    /\ cfgLast.default = PyStr("3")
    /\ cfgLast.value = PyStr("3")

----------------------------------------------------------------------------
(* Claims about AlertListener, checked under SpecAlert *)

\* The message's JSON envelope has a NotificationContainer entry
HasContainer(message) ==
    message.valid /\ message.top = "object" /\ message.entry # "absent"

\* The payloads of the messages of a sequence that have the entry, in order
RECURSIVE Payloads(_)
Payloads(messages) ==
    IF messages = <<>> THEN <<>>
    ELSE (IF HasContainer(Head(messages)) THEN <<Head(messages).payload>> ELSE <<>>)
         \o Payloads(Tail(messages))

\* C11: with a success callback set, the callback has been called exactly
\* once for every message that arrived with a NotificationContainer entry,
\* with that entry, in the order of arrival.
C11_EveryContainerDelivered ==
    _callback => delivered = Payloads(arrived)

Handler == alertLast.op \in {"_onMessage", "_onError"}

\* C12 as stated: no exception leaves _onMessage or _onError, whatever the
\* payload and whatever a callback raises; what was raised is logged, the
\* success callback is not called for a malformed payload, and the listener
\* goes on receiving.
C12_Original ==
    Handler =>
        /\ alertLast.h.escaped = "none"
        /\ alertLast.running
        /\ (alertLast.op = "_onMessage" /\ ~HasContainer(alertLast.message))
           => (~alertLast.h.invoked /\ alertLast.h.logged)
        /\ (alertLast.h.invoked /\ alertLast.outcome # "returns") => alertLast.h.logged

\* C12, amended: nothing derived from Exception leaves _onMessage or
\* _onError: a malformed payload and an Exception raised inside either
\* callback are caught and logged, the success callback is not called for a
\* malformed payload, and the listener goes on receiving.  Only a
\* BaseException that is no Exception (SystemExit, KeyboardInterrupt) raised
\* inside a callback leaves the handler.
C12_Amended ==
    Handler =>
        /\ alertLast.h.escaped # "none"
           => (alertLast.h.invoked /\ alertLast.outcome = "BaseException"
               /\ alertLast.h.escaped = "BaseException")
        /\ alertLast.h.escaped = "none" => alertLast.running
        /\ (alertLast.op = "_onMessage" /\ ~HasContainer(alertLast.message))
           => (~alertLast.h.invoked /\ alertLast.h.logged /\ alertLast.h.escaped = "none")
        /\ (alertLast.h.invoked /\ alertLast.outcome = "Exception")
           => (alertLast.h.logged /\ alertLast.h.escaped = "none")

\* After text that is no JSON, a second message whose callback raises an
\* Exception: caught, logged, and the listener still receiving.
C12_Witness ==
    /\ alertLast.op = "_onMessage"
    /\ Len(arrived) = 2 /\ ~arrived[1].valid
    /\ alertLast.h.invoked /\ alertLast.outcome = "Exception"
    /\ alertLast.h.logged /\ alertLast.h.escaped = "none"
    /\ Receiving

\* The state of the lifecycle
Lifecycle ==
    IF ~started THEN "Created"
    ELSE IF pc = "returned" \/ wsClosed THEN "Stopped"
    ELSE "Running"
Rank(state) == CASE state = "Created" -> 0 [] state = "Running" -> 1 [] OTHER -> 2

C17_StopAfterStartNeverRaises ==
    (alertLast.op = "stop" /\ started) => alertLast.error = "none"

----------------------------------------------------------------------------
(* Claims about Photoalbum and Photo, checked under SpecPhoto *)

Loaded == photoLast.op = "_loadData"

\* The attribute a scalar field is read from
ScalarFields(cls) == {r.field : r \in Rows(cls)} \cup {"key", "titleSort"}
AttrOf(cls, field) ==
    IF field \in {"key", "titleSort"} THEN field
    ELSE (CHOOSE r \in Rows(cls) : r.field = field).attr
Absent(field) == AttrOf(photoLast.cls, field) \notin DOMAIN photoLast.node.attrib

\* C14: Photoalbum._loadData and Photo._loadData raise for no node, listType
\* is always 'photo', and a field whose attribute the node lacks is '' for
\* key, the loaded title for titleSort and none for every other scalar field.
C14_AbsentAttributesTakeDefaults ==
    Loaded =>
        /\ photoLast.raised = "none"
        /\ photoLast.obj["listType"] = PyStr("photo")
        /\ \A f \in ScalarFields(photoLast.cls) :
              Absent(f) =>
                 photoLast.obj[f] = (IF f = "key" THEN EmptyStr
                                     ELSE IF f = "titleSort" THEN photoLast.obj["title"]
                                     ELSE None)

\* A Photo loaded from a node whose only attribute is the title: its
\* titleSort is the title, its key is '' and its sourceURI is none.
C14_Witness ==
    /\ Loaded /\ photoLast.cls = "Photo"
    /\ DOMAIN photoLast.node.attrib = {"title"}
    /\ photoLast.raised = "none"
    /\ photoLast.obj["titleSort"] = PyStr("t")
    /\ photoLast.obj["key"] = EmptyStr
    /\ photoLast.obj["sourceURI"] = None

\* C15: album.get(title) ends as album.photo(title) ends for the same album
\* and title: the same item returned or the same error raised.
C15_GetIsAliasOfPhoto ==
    photoLast.op = "get" =>
        /\ photoLast.raised = photoBody(album, photoLast.title).err
        /\ photoLast.result = photoBody(album, photoLast.title).value

----------------------------------------------------------------------------
(* Claims about concurrent playMedia calls, checked under SpecConc *)

\* Two commands were sent with the same commandID
DuplicateID == \E i, j \in 1..Len(sent) : i # j /\ sent[i].commandID = sent[j].commandID

\* The counter is behind the number of counter updates that have completed
LostIncrement ==
    _commandId < nCalls - Cardinality({t \in Threads : threads[t].pc = "loaded"})

\* C16: as long as no thread has loaded the counter while another thread was
\* between its load and its store, no two commands carry the same commandID
\* and no increment is lost.
C16_SerializedCallsNeverCollide ==
    ~overlapped => (~DuplicateID /\ ~LostIncrement)

\* Two threads' counter updates have interleaved: two commands were sent
\* with the same commandID and the counter is one short.
C16_Witness ==
    /\ overlapped
    /\ DuplicateID
    /\ LostIncrement
    /\ \A t \in Threads : threads[t].pc = "outside"

====
